---- MODULE Spec2Model ----
(***************************************************************************)
(* epub_news: RSS feeds -> one ebook.                                      *)
(*                                                                         *)
(* The model follows one run.  The library part (EpubNews, MediaSource,    *)
(* the Le Monde and Gamekult media sources, the media source factory) is   *)
(* translated from the TypeScript sources.  The command line controller    *)
(* that loops over the configured feeds, removes already seen guids and    *)
(* merges cover and css is modelled from the specification document.       *)
(***************************************************************************)
EXTENDS Integers, Sequences, FiniteSets, TLC

\* ---------------------------------------------------------------- bounds
MaxFeeds == 2
MaxItems == 2
MaxUrlLen == 3

\* ------------------------------------------------------- values and inputs
\* undefined or the empty string, where the value is a plain string (guid, link, creator)
NoVal == "undefined"
\* undefined or the empty string, where the value is text in pieces (title, url, cover, css)
NoText == <<>>

\* item["media:content"]: its "$".url, or no such element at all (reading ["$"] then throws)
Media(u) == [present |-> TRUE, url |-> u]
Absent == [present |-> FALSE, url |-> NoText]

DEFAUT_FEED_IMAGE_SIZE == "644/322"
EXPECTED_COVER_IMAGE_SIZE == "1410/2250"

\* a url is a sequence of path segments
UrlFeedSize == <<"img.lemde.fr", DEFAUT_FEED_IMAGE_SIZE, "a.jpg">>
UrlPlain    == <<"cdn", "b.jpg">>

\* a title is a sequence of words
LiveMarker == "En direct"

\* A feed url is a sequence of pieces: the scheme and host, then path pieces
LEMONDE_HOST == "https://www.lemonde.fr/"
LeMondeUne   == <<LEMONDE_HOST, "rss", "/", "une", ".xml">>
GAMEKULT_FEED_URL == <<"https://www.gamekult.com/", "feed", ".xml">>
UnknownFeed  == <<"https://example.org/", "feed", ".xml">>
\* Feed urls a run may be configured with
FeedUrls == {LeMondeUne, GAMEKULT_FEED_URL, UnknownFeed}

\* The feed items a parsed feed may hold (Parser.Item & CustomRssItem)
Item(g, t, l, m, c) == [guid |-> g, title |-> t, link |-> l, media |-> m, creator |-> c]
Items ==
  { Item("g1",  <<"t1">>,             "l1",  Media(UrlFeedSize), "auth"),
    Item("g2",  <<"t2">>,             "l2",  Media(NoText), NoVal),
    Item(NoVal, <<"t1">>,             "l1",  Absent,                NoVal),
    Item("g1",  <<LiveMarker, "t3">>, "l3",  Media(UrlPlain), NoVal),
    Item("g2",  NoText,               "l2",  Media(NoText), NoVal),
    Item(NoVal, <<"t4">>,             NoVal, Media(UrlPlain), NoVal),
    Item("g3",  <<"t4">>,             "l4",  Media(UrlPlain), NoVal) }

\* Item lists of a feed, in feed order
RECURSIVE SeqsUpTo(_, _)
SeqsUpTo(S, n) ==
  IF n = 0 THEN {<<>>}
  ELSE LET shorter == SeqsUpTo(S, n - 1)
       IN  shorter \cup {Append(s, x) : s \in {t \in shorter : Len(t) = n - 1}, x \in S}
NewsLists == SeqsUpTo(Items, MaxItems)

\* A fetched page, reduced to the content containers it holds
Pages == { {}, {"zone", "news"}, {"longform", "review"}, {"zone", "longform", "review", "news"} }

\* ------------------------------------------------------------ media sources
\* Pieces made only of characters of [a-z/_-] and of [a-z/_]
DashClass  == {"rss", "/", "une", "en_continu", "-"}
PlainClass == DashClass \ {"-"}

\* RSS_MATCHING_REGEX: (^https://www.lemonde.fr/){1}[a-z/_-]*(rss)+[a-z/_]*(.xml$){1}
LeMondeIsHandlingRssFeed(rssFeedUrl) ==
  /\ Len(rssFeedUrl) >= 3
  /\ rssFeedUrl[1] = LEMONDE_HOST
  /\ rssFeedUrl[Len(rssFeedUrl)] = ".xml"
  /\ \E k \in 2..(Len(rssFeedUrl) - 1) :
        /\ rssFeedUrl[k] = "rss"
        /\ \A j \in 2..(k - 1) : rssFeedUrl[j] \in DashClass
        /\ \A j \in (k + 1)..(Len(rssFeedUrl) - 1) : rssFeedUrl[j] \in PlainClass

GamekultIsHandlingRssFeed(rssFeedUrl) == rssFeedUrl = GAMEKULT_FEED_URL

\* A factory that falls back to a media source when nothing handles the url
createMediaSource_Fallback(rssFeedUrl) ==
  IF LeMondeIsHandlingRssFeed(rssFeedUrl) THEN "LeMonde" ELSE "Gamekult"

\* A factory that knows one implementation only
createMediaSource_LeMondeOnly(rssFeedUrl) ==
  IF LeMondeIsHandlingRssFeed(rssFeedUrl) THEN "LeMonde" ELSE "null"

\* The factory: the first implementation that handles the url, or null
createMediaSource(rssFeedUrl) ==
  IF LeMondeIsHandlingRssFeed(rssFeedUrl) THEN "LeMonde"
  ELSE IF GamekultIsHandlingRssFeed(rssFeedUrl) THEN "Gamekult"
  ELSE "null"

\* A test that forgets the title
HasLinkAndTitle_LinkOnly(news) == news.link # NoVal

\* news.link && news.title
HasLinkAndTitle(news) == news.link # NoVal /\ news.title # NoText

\* title.startsWith("En direct")
StartsWithLive(title) == title # NoText /\ title[1] = LiveMarker

\* String.replace(a, b) on a url: the first occurrence only
RECURSIVE ReplaceFirst(_, _, _)
ReplaceFirst(url, a, b) ==
  IF url = <<>> THEN <<>>
  ELSE IF Head(url) = a THEN <<b>> \o Tail(url)
  ELSE <<Head(url)>> \o ReplaceFirst(Tail(url), a, b)

Contains(url, a) == \E i \in 1..Len(url) : url[i] = a

\* createBookCoverFromArticle: [threw, cover].  The media reference is read
\* only when no cover is set yet; reading it on an item without media:content throws.
LeMondeCreateBookCover(cover, news) ==
  IF cover # NoText THEN [threw |-> FALSE, cover |-> cover]
  ELSE IF ~news.media.present THEN [threw |-> TRUE, cover |-> cover]
  ELSE IF news.media.url = NoText THEN [threw |-> FALSE, cover |-> cover]
  ELSE [threw |-> FALSE,
        cover |-> IF Contains(news.media.url, DEFAUT_FEED_IMAGE_SIZE)
                  THEN ReplaceFirst(news.media.url, DEFAUT_FEED_IMAGE_SIZE, EXPECTED_COVER_IMAGE_SIZE)
                  ELSE news.media.url]

GamekultCreateBookCover(cover, news) ==
  IF cover # NoText THEN [threw |-> FALSE, cover |-> cover]
  ELSE IF ~news.media.present THEN [threw |-> TRUE, cover |-> cover]
  ELSE IF news.media.url = NoText THEN [threw |-> FALSE, cover |-> cover]
  ELSE [threw |-> FALSE, cover |-> news.media.url]

\* Error.toString() of what trimArticleForEpub throws
LiveError  == "Error: is a live stream, skip"
EmptyError == "Error: empty, skip"
TypeError  == "TypeError: Cannot read properties of undefined (reading '$')"

Thrown(err, cover) == [ok |-> FALSE, data |-> NoText, error |-> err, cover |-> cover]
Trimmed(news, container, cover) ==
  [ok |-> TRUE, data |-> <<container, news.link>>, error |-> NoVal, cover |-> cover]

\* A trim that takes the cover only from a page whose container was found
LeMondeTrimArticleForEpub_CoverAfterLookup(cover, news, page) ==
  IF StartsWithLive(news.title) THEN Thrown(LiveError, cover)
  ELSE IF ~("zone" \in page \/ "longform" \in page) THEN Thrown(EmptyError, cover)
  ELSE LET c == LeMondeCreateBookCover(cover, news)
       IN  IF c.threw THEN Thrown(TypeError, c.cover)
           ELSE IF "zone" \in page THEN Trimmed(news, "zone", c.cover)
           ELSE Trimmed(news, "longform", c.cover)

\* A trim that takes the cover before it looks at the title
LeMondeTrimArticleForEpub_CoverFirst(cover, news, page) ==
  LET c == LeMondeCreateBookCover(cover, news)
  IN  IF c.threw THEN Thrown(TypeError, c.cover)
      ELSE IF StartsWithLive(news.title) THEN Thrown(LiveError, c.cover)
      ELSE IF "zone" \in page THEN Trimmed(news, "zone", c.cover)
      ELSE IF "longform" \in page THEN Trimmed(news, "longform", c.cover)
      ELSE Thrown(EmptyError, c.cover)

\* trimArticleForEpub of the Le Monde source: [ok, data, error, cover]
LeMondeTrimArticleForEpub(cover, news, page) ==
  IF StartsWithLive(news.title) THEN Thrown(LiveError, cover)
  ELSE LET c == LeMondeCreateBookCover(cover, news)
       IN  IF c.threw THEN Thrown(TypeError, c.cover)
           ELSE IF "zone" \in page THEN Trimmed(news, "zone", c.cover)
           ELSE IF "longform" \in page THEN Trimmed(news, "longform", c.cover)
           ELSE Thrown(EmptyError, c.cover)

\* trimArticleForEpub of the Gamekult source
GamekultTrimArticleForEpub(cover, news, page) ==
  LET c == GamekultCreateBookCover(cover, news)
  IN  IF c.threw THEN Thrown(TypeError, c.cover)
      ELSE IF "review" \in page THEN Trimmed(news, "review", c.cover)
      ELSE IF "news" \in page THEN Trimmed(news, "news", c.cover)
      ELSE Thrown(EmptyError, c.cover)

\* A trim that returns the whole page when no content container matches
trimArticleForEpub_NeverEmpty(kind, cover, news, page) ==
  LET t == IF kind = "LeMonde" THEN LeMondeTrimArticleForEpub(cover, news, page)
           ELSE GamekultTrimArticleForEpub(cover, news, page)
  IN  IF t.error = EmptyError THEN Trimmed(news, "page", t.cover) ELSE t

trimArticleForEpub(kind, cover, news, page) ==
  IF kind = "LeMonde" THEN LeMondeTrimArticleForEpub(cover, news, page)
  ELSE GamekultTrimArticleForEpub(cover, news, page)

\* customCss of each source, as text pieces; NL is the line break
NL == "\n"
LeMondeCustomCss ==
  << NL, ".zone--article img, .article--content img {", NL, "  min-width: 80%;", NL,
     "  padding: 8px 10%;", NL, "}", NL,
     ".zone--article figcaption, .article--content figcaption {", NL,
     "  opacity: 0.75;", NL, "  font-style: italic;", NL, "  font-size: 80%;", NL,
     "  padding: 0 10%;", NL, "  text-align: center;", NL, "  padding: 0;", NL, "}", NL,
     NL, ".breadcrumb {", NL, "  list-style-type: none;", NL, "  padding: 0;", NL,
     "  margin: 0;", NL, "}", NL, ".breadcrumb li {", NL, "  display: inline", NL,
     "  margin: 0;", NL, "  padding: 0;", NL, "}", NL, ".breadcrumb li:before {", NL,
     "  content: \"/\";", NL, "  padding: 0 8px;", NL, "}", NL >>
GamekultCustomCss ==
  << NL, " img {", NL, "  display: block;", NL, "  min-width: 100%;", NL,
     "  padding: 8px 0;", NL, "}", NL, NL, "figcaption {", NL, "  padding: 0;", NL,
     "  opacity: 0.75;", NL, "  font-style: italic;", NL, "  font-size: 80%;", NL,
     "  text-align: center;", NL, "}", NL >>

customCss(kind) == IF kind = "LeMonde" THEN LeMondeCustomCss ELSE GamekultCustomCss

\* ------------------------------------------------------------------- state
VARIABLES
  pc,          \* where the run is: start, ready, ingesting, selecting, extracting,
               \* fetching, done, configError, failed, crashed
  nFeeds,      \* number of configured feeds
  feedIdx,     \* number of configured feeds taken so far
  feedUrl,     \* url of the feed being processed
  newsList,    \* items of the feed being processed, as parsed
  selected,    \* positions in newsList of the items passed to getEpubDataFromArticles
  idx,         \* position in selected of the loop of computeArticlesFromNewsList
  msKind,      \* the media source instance of getEpubDataFromArticles ...
  msCover,     \* ... and its _cover
  epubContent, \* result.epubContent of the running computeArticlesFromNewsList
  results,     \* result.results of the running computeArticlesFromNewsList
  articles,    \* run aggregate: articles
  outcomes,    \* run aggregate: fetching results
  cover,       \* run aggregate: cover
  style,       \* run aggregate: merged custom css
  seenSet,     \* guids seen in this run
  resultsSrc,  \* history: for each entry of results, the item it is about
  outcomesSrc, \* history: for each entry of outcomes, the item it is about
  seenPrev,    \* history: seenSet as it was when the current feed was ingested
  lastFetch,   \* history: how the last retrieveArticle ended
  nFetched,    \* history: number of retrieveArticle calls made
  nResults,    \* history: number of results pushed by computeArticlesFromNewsList
  unattempted, \* history: items with title and link that a finished loop never reached
  merged,      \* history: kind and cover of each media source whose output was merged
  inFlight,    \* history: the suspending calls that were made and have not completed
  httpStatus,  \* history: status of the response that the last retrieveArticle got
  fetched,     \* history: positions in newsList given to retrieveArticle for this feed
  resolveUrl,  \* factory alone: the url given to createMediaSource
  resolved,    \* factory alone: what createMediaSource returned for it
  resolvedAgain \* factory alone: what a second call returned for the same url

vars == << pc, nFeeds, feedIdx, feedUrl, newsList, selected, idx, msKind, msCover,
           epubContent, results, articles, outcomes, cover, style, seenSet,
           resultsSrc, outcomesSrc, seenPrev, lastFetch, nFetched, nResults,
           unattempted, merged, inFlight, httpStatus, fetched,
           resolveUrl, resolved, resolvedAgain >>

feedVars  == << feedUrl, newsList, selected, idx, msKind, msCover >>
localVars == << epubContent, results, resultsSrc >>
aggVars   == << articles, outcomes, outcomesSrc, cover, style >>
histVars  == << lastFetch, nFetched, nResults, unattempted >>
opVars    == << inFlight, httpStatus, fetched >>
factoryVars == << resolveUrl, resolved, resolvedAgain >>

\* The state of a run after construction, for a given number of feeds
InitRun(n) ==
  /\ pc = "start"
  /\ nFeeds = n
  /\ feedIdx = 0
  /\ feedUrl = <<>>
  /\ newsList = <<>>
  /\ selected = <<>>
  /\ idx = 1
  /\ msKind = "null"
  /\ msCover = NoText
  /\ epubContent = <<>>
  /\ results = <<>>
  /\ articles = <<>>
  /\ outcomes = <<>>
  /\ cover = NoText
  /\ style = NoText
  /\ seenSet = {}
  /\ resultsSrc = <<>>
  /\ outcomesSrc = <<>>
  /\ seenPrev = {}
  /\ lastFetch = "none"
  /\ nFetched = 0
  /\ nResults = 0
  /\ unattempted = 0
  /\ merged = <<>>
  /\ inFlight = <<>>
  /\ httpStatus = "none"
  /\ fetched = <<>>

Init ==
  /\ \E n \in 0..MaxFeeds : InitRun(n)
  /\ resolveUrl = <<>>
  /\ resolved = NoVal
  /\ resolvedAgain = NoVal

\* A suspending call completes: its first entry leaves the calls in flight
Completed(calls, name) ==
  LET at == CHOOSE k \in 1..Len(calls) : calls[k] = name /\ \A j \in 1..(k - 1) : calls[j] # name
  IN  SubSeq(calls, 1, at - 1) \o SubSeq(calls, at + 1, Len(calls))

\* The status a response with this page may carry: retrieveArticle does not look
\* at res.statusCode, an error page holding no article comes with 404
StatusesOf(page) == IF page = {} THEN {"200", "404"} ELSE {"200"}

\* ------------------------------------------------------------ the controller
\* A dedup that drops nothing
Dedup_KeepAll(list, seen) == [i \in 1..Len(list) |-> i]

\* Positions of the items that pass the dedup: no guid, or a guid not seen yet
Dedup(list, seen) ==
  LET Keep(i) == list[i].guid = NoVal \/ list[i].guid \notin seen
  IN  SelectSeq([i \in 1..Len(list) |-> i], Keep)

\* Guids that count a missing guid as a guid
GuidsOf_WithMissing(list, positions) ==
  {list[positions[k]].guid : k \in 1..Len(positions)}

\* The guids of the items at the given positions
GuidsOf(list, positions) ==
  {list[positions[k]].guid : k \in 1..Len(positions)} \ {NoVal}

\* What the selection may return: the list it was given, restricted to any subset
Selections(positions) ==
  LET Range == {positions[k] : k \in 1..Len(positions)}
  IN  {LET In(i) == i \in T IN SelectSeq(positions, In) : T \in SUBSET Range}

\* String.includes
Includes(text, part) ==
  \E i \in 0..(Len(text) - Len(part)) : SubSeq(text, i + 1, i + Len(part)) = part

\* A merge where the last cover wins, and one that always appends the css
MergeCover_LastWins(agg, c) == IF c # NoText THEN c ELSE agg
MergeStyle_Always(agg, css) == agg \o css

MergeCover(agg, c) == IF agg = NoText THEN c ELSE agg
MergeStyle(agg, css) == IF Includes(agg, css) THEN agg ELSE agg \o css

\* A start that does not look at the number of feeds
Start_Unchecked ==
  /\ pc = "start"
  /\ pc' = "ready"
  /\ UNCHANGED << factoryVars, opVars, nFeeds, feedIdx, feedVars, localVars, aggVars,
                  seenSet, seenPrev, histVars, merged >>

\* No feed configured: the run ends before anything is fetched
Start ==
  /\ pc = "start"
  /\ \/ nFeeds = 0 /\ pc' = "configError"
     \/ nFeeds > 0 /\ pc' = "ready"
  /\ UNCHANGED << factoryVars, opVars, nFeeds, feedIdx, feedVars, localVars, aggVars, seenSet, seenPrev,
                  histVars, merged >>

\* listArticlesFromFeed throws NoMediaSourceError: the feed is skipped
SkipUnmatchedFeed(url) ==
  /\ pc = "ready"
  /\ feedIdx < nFeeds
  /\ createMediaSource(url) = "null"
  /\ feedUrl' = url
  /\ feedIdx' = feedIdx + 1
  /\ UNCHANGED << factoryVars, opVars, pc, nFeeds, newsList, selected, idx, msKind, msCover, localVars,
                  aggVars, seenSet, seenPrev, histVars, merged >>

\* listArticlesFromFeed creates a media source and starts parsing the feed
ListArticlesFromFeed(url) ==
  /\ pc = "ready"
  /\ feedIdx < nFeeds
  /\ createMediaSource(url) # "null"
  /\ feedUrl' = url
  /\ feedIdx' = feedIdx + 1
  /\ pc' = "ingesting"
  /\ inFlight' = Append(inFlight, "listArticlesFromFeed")
  /\ UNCHANGED << factoryVars, httpStatus, fetched, nFeeds, newsList, selected, idx, msKind, msCover, localVars,
                  aggVars, seenSet, seenPrev, histVars, merged >>

\* A dedup step that leaves the seen set as it was
IngestAndDedup_SeenNotUpdated(list) ==
  /\ pc = "ingesting"
  /\ newsList' = list
  /\ selected' = Dedup(list, seenSet)
  /\ seenPrev' = seenSet
  /\ pc' = "selecting"
  /\ inFlight' = Completed(inFlight, "listArticlesFromFeed")
  /\ UNCHANGED << factoryVars, httpStatus, fetched, nFeeds, feedIdx, feedUrl, idx, msKind,
                  msCover, localVars, aggVars, seenSet, histVars, merged >>

\* The parsed feed arrives; items with an already seen guid are dropped and the
\* guids of the remaining items are added to the seen set
IngestAndDedup(list) ==
  /\ pc = "ingesting"
  /\ newsList' = list
  /\ selected' = Dedup(list, seenSet)
  /\ seenSet' = seenSet \cup GuidsOf(list, selected')
  /\ seenPrev' = seenSet
  /\ pc' = "selecting"
  /\ inFlight' = Completed(inFlight, "listArticlesFromFeed")
  /\ UNCHANGED << factoryVars, httpStatus, fetched, nFeeds, feedIdx, feedUrl, idx, msKind, msCover, localVars, aggVars,
                  histVars, merged >>

\* A call that takes up the media source of the call before it, cover included
GetEpubDataFromArticles_SourceKept(sel) ==
  /\ pc = "selecting"
  /\ selected' = sel
  /\ msKind' = createMediaSource(feedUrl)
  /\ msCover' = IF merged = <<>> THEN NoText ELSE merged[Len(merged)].cover
  /\ idx' = 1
  /\ epubContent' = <<>>
  /\ results' = <<>>
  /\ resultsSrc' = <<>>
  /\ pc' = "extracting"
  /\ UNCHANGED << factoryVars, opVars, nFeeds, feedIdx, feedUrl, newsList, aggVars, seenSet,
                  seenPrev, histVars, merged >>

\* The selection answers; getEpubDataFromArticles creates a fresh media source and
\* computeArticlesFromNewsList starts with an empty result
GetEpubDataFromArticles(sel) ==
  /\ pc = "selecting"
  /\ selected' = sel
  /\ msKind' = createMediaSource(feedUrl)
  /\ msCover' = NoText
  /\ idx' = 1
  /\ epubContent' = <<>>
  /\ results' = <<>>
  /\ resultsSrc' = <<>>
  /\ pc' = "extracting"
  /\ UNCHANGED << factoryVars, opVars, nFeeds, feedIdx, feedUrl, newsList, aggVars, seenSet, seenPrev,
                  histVars, merged >>

\* ------------------------------------------- computeArticlesFromNewsList
News == newsList[selected[idx]]

Origin == [feed |-> feedIdx, pos |-> selected[idx], guid |-> News.guid]

\* Items with title and link at positions after idx
Remaining ==
  Cardinality({k \in (idx + 1)..Len(selected) : HasLinkAndTitle(newsList[selected[k]])})

\* The call for a feed is over: its media source and its lists are gone
LeaveFeed ==
  /\ feedUrl' = <<>>
  /\ newsList' = <<>>
  /\ selected' = <<>>
  /\ idx' = 1
  /\ msKind' = "null"
  /\ msCover' = NoText
  /\ seenPrev' = {}
  /\ httpStatus' = "none"
  /\ fetched' = <<>>

\* An item without link or title is passed over
SkipNews ==
  /\ pc = "extracting"
  /\ idx <= Len(selected)
  /\ ~HasLinkAndTitle(News)
  /\ idx' = idx + 1
  /\ UNCHANGED << factoryVars, opVars, pc, nFeeds, feedIdx, feedUrl, newsList, selected, msKind, msCover,
                  localVars, aggVars, seenSet, seenPrev, histVars, merged >>

\* A loop that calls retrieveArticle and goes on without waiting for it
RetrieveArticle_NotAwaited ==
  /\ pc = "extracting"
  /\ idx <= Len(selected)
  /\ HasLinkAndTitle(News)
  /\ idx' = idx + 1
  /\ nFetched' = nFetched + 1
  /\ inFlight' = Append(inFlight, "retrieveArticle")
  /\ httpStatus' = "none"
  /\ fetched' = Append(fetched, selected[idx])
  /\ UNCHANGED << factoryVars, pc, nFeeds, feedIdx, feedUrl, newsList, selected, msKind,
                  msCover, localVars, aggVars, seenSet, seenPrev, lastFetch, nResults,
                  unattempted, merged >>

\* retrieveArticle(news.link) is called and awaited
RetrieveArticle ==
  /\ pc = "extracting"
  /\ idx <= Len(selected)
  /\ HasLinkAndTitle(News)
  /\ pc' = "fetching"
  /\ nFetched' = nFetched + 1
  /\ inFlight' = Append(inFlight, "retrieveArticle")
  /\ httpStatus' = "none"
  /\ fetched' = Append(fetched, selected[idx])
  /\ UNCHANGED << factoryVars, nFeeds, feedIdx, feedVars, localVars, aggVars, seenSet, seenPrev,
                  lastFetch, nResults, unattempted, merged >>

SuccessResult(news) == [title |-> news.title, link |-> news.link, success |-> TRUE, error |-> NoVal]
FailureResult(news, err) == [title |-> news.title, link |-> news.link, success |-> FALSE, error |-> err]
EpubArticle(news, data) == [title |-> news.title, data |-> data, author |-> news.creator]

\* A push at the front
Push_Front(array, x) == <<x>> \o array

\* Array.push
Push(array, x) == Append(array, x)

\* The response ends: the page is trimmed, inside the try block
RetrieveResolves(page) ==
  /\ pc = "fetching"
  /\ LET t == trimArticleForEpub(msKind, msCover, News, page)
     IN  /\ msCover' = t.cover
         /\ IF t.ok
            THEN /\ epubContent' = Push(epubContent, EpubArticle(News, t.data))
                 /\ results' = Push(results, SuccessResult(News))
            ELSE /\ epubContent' = epubContent
                 /\ results' = Push(results, FailureResult(News, t.error))
  /\ resultsSrc' = Append(resultsSrc, Origin)
  /\ idx' = idx + 1
  /\ pc' = "extracting"
  /\ lastFetch' = "resolved"
  /\ nResults' = nResults + 1
  /\ inFlight' = Completed(inFlight, "retrieveArticle")
  /\ httpStatus' \in StatusesOf(page)
  /\ UNCHANGED << factoryVars, fetched, nFeeds, feedIdx, feedUrl, newsList, selected, msKind, aggVars,
                  seenSet, seenPrev, nFetched, unattempted, merged >>

\* The response stream fails: retrieveArticle rejects.  The await is outside the
\* try block, so computeArticlesFromNewsList and getEpubDataFromArticles reject
\* and the result built so far is dropped.  The controller either gives up or
\* goes on with the next feed.
RetrieveRejects ==
  /\ pc = "fetching"
  /\ lastFetch' = "rejected"
  /\ unattempted' = unattempted + Remaining
  /\ epubContent' = <<>>
  /\ results' = <<>>
  /\ resultsSrc' = <<>>
  /\ \/ pc' = "failed"
     \/ pc' = "ready"
  /\ LeaveFeed
  /\ inFlight' = Completed(inFlight, "retrieveArticle")
  /\ UNCHANGED << factoryVars, nFeeds, feedIdx, aggVars, seenSet, nFetched, nResults, merged >>

\* The request itself fails: nobody listens to its error event, the process dies
RetrieveRequestError ==
  /\ pc = "fetching"
  /\ lastFetch' = "requestError"
  /\ unattempted' = unattempted + Remaining
  /\ pc' = "crashed"
  /\ UNCHANGED << factoryVars, opVars, nFeeds, feedIdx, feedVars, localVars, aggVars, seenSet, seenPrev,
                  nFetched, nResults, merged >>

\* The loop is over: getEpubDataFromArticles returns the result with the media
\* source's cover and css, and the controller merges them into the aggregate
MergeFeed ==
  /\ pc = "extracting"
  /\ idx > Len(selected)
  /\ articles' = articles \o epubContent
  /\ outcomes' = outcomes \o results
  /\ outcomesSrc' = outcomesSrc \o resultsSrc
  /\ cover' = MergeCover(cover, msCover)
  /\ style' = MergeStyle(style, customCss(msKind))
  /\ merged' = Append(merged, [kind |-> msKind, cover |-> msCover])
  /\ epubContent' = <<>>
  /\ results' = <<>>
  /\ resultsSrc' = <<>>
  /\ pc' = "ready"
  /\ LeaveFeed
  /\ UNCHANGED << factoryVars, inFlight, nFeeds, feedIdx, seenSet, histVars >>

\* All feeds were taken: the aggregate goes to the epub generation
Finish ==
  /\ pc = "ready"
  /\ feedIdx = nFeeds
  /\ pc' = "done"
  /\ UNCHANGED << factoryVars, opVars, nFeeds, feedIdx, feedVars, localVars, aggVars, seenSet, seenPrev,
                  histVars, merged >>

Next ==
  \/ Start
  \/ \E url \in FeedUrls : SkipUnmatchedFeed(url)
  \/ \E url \in FeedUrls : ListArticlesFromFeed(url)
  \/ \E list \in NewsLists : IngestAndDedup(list)
  \/ \E sel \in Selections(selected) : GetEpubDataFromArticles(sel)
  \/ SkipNews
  \/ RetrieveArticle
  \/ \E page \in Pages : RetrieveResolves(page)
  \/ RetrieveRejects
  \/ RetrieveRequestError
  \/ MergeFeed
  \/ Finish

Spec == Init /\ [][Next]_vars

\* =================================================================== claims
\* ----------------------------------------------------- helpers of the claims
Successes(res) == LET Ok(r) == r.success IN SelectSeq(res, Ok)
Titles(seq) == [k \in 1..Len(seq) |-> seq[k].title]
ResultLinks(res) == [k \in 1..Len(res) |-> res[k].link]
ArticleLinks(arts) == [k \in 1..Len(arts) |-> arts[k].data[2]]

\* The articles are what the successful results say, in the same order
ArticlesMatch(arts, res) ==
  /\ Titles(arts) = Titles(Successes(res))
  /\ ArticleLinks(arts) = ResultLinks(Successes(res))

\* Items in the order met: feed after feed, and inside a feed by position
InEncounterOrder(src) ==
  \A i, j \in 1..Len(src) :
    i < j => \/ src[i].feed < src[j].feed
             \/ src[i].feed = src[j].feed /\ src[i].pos < src[j].pos

FetchEnded == pc = "fetching" /\ pc' # "fetching"

\* C1: every item that survives dedup and selection and has title and link
\* produces exactly one Outcome, and an article exists exactly for the success
\* Outcomes: outside a pending fetch, as many results were produced as articles
\* were fetched, no item was left behind, and articles and success Outcomes
\* agree in number.
C1_OneOutcomePerItem ==
  /\ pc # "fetching" => nResults = nFetched
  /\ Len(epubContent) = Len(Successes(results))
  /\ Len(articles) = Len(Successes(outcomes))

C3_NoGuidNeverDropped ==
  /\ NoVal \notin seenSet
  /\ pc = "selecting" =>
        /\ \A i \in 1..Len(newsList) :
              newsList[i].guid = NoVal => \E k \in 1..Len(selected) : selected[k] = i
        /\ seenSet \subseteq
              seenPrev \cup {newsList[i].guid : i \in {n \in 1..Len(newsList) : newsList[n].guid # NoVal}}

\* C3 witness: an item without guid passed the dedup although an item without
\* guid, with the same title and link, has an Outcome already
C3_Witness ==
  /\ pc = "selecting"
  /\ \E k \in 1..Len(selected), o \in 1..Len(outcomes) :
        /\ newsList[selected[k]].guid = NoVal
        /\ outcomesSrc[o].guid = NoVal
        /\ outcomes[o].title = newsList[selected[k]].title
        /\ outcomes[o].link = newsList[selected[k]].link

\* C4: a failing item never stops the run: no loop ends leaving items with
\* title and link unattempted, and the run is never given up.
C4_FailureNeverStopsRun ==
  /\ unattempted = 0
  /\ pc # "crashed"
  /\ pc # "failed"

\* C5: when the fetch of an item fails, exactly one failure Outcome with the
\* item's title and link is recorded for it and no article is added.
C5_FetchFailureRecorded ==
  [][ (FetchEnded /\ lastFetch' \in {"rejected", "requestError"})
        => /\ Len(results') = Len(results) + 1
           /\ results'[Len(results')].title = News.title
           /\ results'[Len(results')].link = News.link
           /\ ~results'[Len(results')].success
           /\ epubContent' = epubContent ]_vars

\* C6: articles and Outcomes are in encounter order: feeds in the order taken
\* and, inside a feed, the order of the feed's list; each entry is about the
\* item met at that place; the articles are the successful Outcomes in the
\* same order.
C6_EncounterOrder ==
  /\ InEncounterOrder(outcomesSrc \o resultsSrc)
  /\ Len(outcomes) = Len(outcomesSrc)
  /\ Len(results) = Len(resultsSrc)
  /\ \A k \in 1..Len(results) :
        /\ resultsSrc[k].feed = feedIdx
        /\ results[k].title = newsList[resultsSrc[k].pos].title
        /\ results[k].link = newsList[resultsSrc[k].pos].link
  /\ ArticlesMatch(epubContent, results)
  /\ ArticlesMatch(articles, outcomes)

\* C6 witness: a finished run with Outcomes of two feeds, a failure among them,
\* and two articles of different items
C6_Witness ==
  /\ pc = "done"
  /\ Len(outcomes) >= 3
  /\ Len(articles) >= 2
  /\ \E i, j \in 1..Len(outcomesSrc) : outcomesSrc[i].feed # outcomesSrc[j].feed
  /\ \E i \in 1..Len(outcomes) : ~outcomes[i].success
  /\ articles[1].title # articles[2].title

\* Covers that the merged media sources had, in merge order
Offers == LET Has(m) == m.cover # NoText IN SelectSeq(merged, Has)

\* C7: the aggregate cover is the cover of the first merged feed that had one,
\* and none when no merged feed had one.
C7_CoverFirstWins ==
  cover = IF Offers = <<>> THEN NoText ELSE Offers[1].cover

\* C7 witness: two feeds with different covers were merged
C7_Witness ==
  /\ pc = "done"
  /\ Len(Offers) = 2
  /\ Offers[1].cover # Offers[2].cover
  /\ cover = Offers[1].cover

\* Number of places where part occurs in text
CountOcc(text, part) ==
  Cardinality({i \in 0..(Len(text) - Len(part)) : SubSeq(text, i + 1, i + Len(part)) = part})

\* The css texts of the merged kinds, each once, in the order of first merge
RECURSIVE FirstKinds(_, _)
FirstKinds(ms, had) ==
  IF ms = <<>> THEN <<>>
  ELSE IF Head(ms).kind \in had THEN FirstKinds(Tail(ms), had)
  ELSE <<Head(ms).kind>> \o FirstKinds(Tail(ms), had \cup {Head(ms).kind})
RECURSIVE ConcatCss(_)
ConcatCss(kinds) ==
  IF kinds = <<>> THEN NoText ELSE customCss(Head(kinds)) \o ConcatCss(Tail(kinds))

\* C8: the merged style holds the css of every merged kind exactly once, the
\* css of no other kind, and is their concatenation in feed order.
C8_StyleOncePerKind ==
  /\ style = ConcatCss(FirstKinds(merged, {}))
  /\ \A kind \in {"LeMonde", "Gamekult"} :
        CountOcc(style, customCss(kind)) =
          IF \E k \in 1..Len(merged) : merged[k].kind = kind THEN 1 ELSE 0

\* C8 witness: two feeds of the same kind were merged and the css is there once
C8_Witness ==
  /\ Len(merged) = 2
  /\ merged[1].kind = merged[2].kind
  /\ style = customCss(merged[1].kind)

\* C9: a feed url that no media source handles adds no article and no Outcome,
\* does not end the run, and the next feed is taken.
C9_UnmatchedFeedSkipped ==
  [][ (pc = "ready" /\ feedIdx' # feedIdx /\ feedUrl' = UnknownFeed)
        => /\ pc' = "ready"
           /\ feedIdx' = feedIdx + 1
           /\ UNCHANGED << articles, outcomes, cover, style, seenSet, nFetched >> ]_vars

\* C9 witness: the second feed was unmatched and skipped after a first feed
\* that recorded Outcomes
C9_Witness ==
  /\ pc = "ready"
  /\ feedUrl = UnknownFeed
  /\ feedIdx = 2
  /\ outcomes # <<>>

\* C10: an item without title or without link is passed over: no Outcome, no
\* article, no fetch, and the loop goes to the next item.
C10_MissingTitleOrLinkSkipped ==
  [][ (/\ pc = "extracting"
       /\ idx <= Len(selected)
       /\ (News.title = NoText \/ News.link = NoVal))
        => /\ pc' = "extracting"
           /\ idx' = idx + 1
           /\ UNCHANGED << epubContent, results, nFetched, nResults >> ]_vars

\* C10 witness: the first item had no title, the second one got its Outcome
C10_Witness ==
  /\ pc = "extracting"
  /\ idx = 3
  /\ newsList[selected[1]].title = NoText
  /\ Len(results) = 1

\* ------------------------------------------------- the two feeds scenario
\* The items of the scenario: g1 and g3 have a page with content, g2 has none
ItemG1 == Item("g1", <<"t1">>, "l1", Media(UrlFeedSize), "auth")
ItemG2 == Item("g2", <<"t2">>, "l2", Media(NoText), NoVal)
ItemG3 == Item("g3", <<"t4">>, "l4", Media(UrlPlain), NoVal)

\* Feed A yields [g1, g2], feed B yields [g1, g3]; any further feed is empty
ScenarioFeed(n) ==
  IF n = 1 THEN <<ItemG1, ItemG2>>
  ELSE IF n = 2 THEN <<ItemG1, ItemG3>>
  ELSE <<>>

ScenarioPage(news) ==
  IF news.guid = "g2" THEN {} ELSE {"zone", "longform", "review", "news"}

\* The run on the scenario: the feeds and pages are given, the selection keeps
\* everything; which source handles a feed and whether a fetch fails stay open
ScenarioNext ==
  \/ Start
  \/ \E url \in FeedUrls : SkipUnmatchedFeed(url)
  \/ \E url \in FeedUrls : ListArticlesFromFeed(url)
  \/ IngestAndDedup(ScenarioFeed(feedIdx))
  \/ GetEpubDataFromArticles(selected)
  \/ RetrieveArticle
  \/ RetrieveResolves(ScenarioPage(News))
  \/ RetrieveRejects
  \/ RetrieveRequestError
  \/ MergeFeed
  \/ Finish

SpecScenario == Init /\ [][ScenarioNext]_vars

\* Both feeds of the scenario were handled and merged
ScenarioRan == pc = "done" /\ nFeeds >= 2 /\ Len(merged) = nFeeds

\* C11: on feeds A = [g1 with content, g2 without content container] and
\* B = [g1 again, g3 with content] the run ends with the articles of A's g1 and
\* of g3 and with the Outcomes g1 success, g2 failure "empty", g3 success, in
\* that order; B's g1 is never fetched (three fetches in all).
C11_TwoFeedsScenario ==
  ScenarioRan =>
    /\ outcomes = << [title |-> <<"t1">>, link |-> "l1", success |-> TRUE, error |-> NoVal],
                     [title |-> <<"t2">>, link |-> "l2", success |-> FALSE, error |-> EmptyError],
                     [title |-> <<"t4">>, link |-> "l4", success |-> TRUE, error |-> NoVal] >>
    /\ outcomesSrc = << [feed |-> 1, pos |-> 1, guid |-> "g1"],
                        [feed |-> 1, pos |-> 2, guid |-> "g2"],
                        [feed |-> 2, pos |-> 2, guid |-> "g3"] >>
    /\ Len(articles) = 2
    /\ articles[1].title = <<"t1">> /\ articles[1].data[2] = "l1"
    /\ articles[1].data[1] \in {"zone", "review"} /\ articles[1].author = "auth"
    /\ articles[2].title = <<"t4">> /\ articles[2].data[2] = "l4"
    /\ articles[2].data[1] \in {"zone", "review"}
    /\ nFetched = 3

\* C11 witness: the scenario ran to its end
C11_Witness == ScenarioRan /\ Len(outcomes) = 3 /\ nFeeds = 2

\* ------------------------------------------------------ the factory alone
\* The pieces urls are made of, and the urls given to the factory
UrlPieces == {LEMONDE_HOST, "https://www.gamekult.com/", "rss", "/", "-", "une", "feed", ".xml"}
ResolveUrls == SeqsUpTo(UrlPieces, MaxUrlLen) \cup FeedUrls

\* No run goes on: createMediaSource is called on a url, then on the same url again
InitFactory ==
  /\ InitRun(0)
  /\ resolveUrl \in ResolveUrls
  /\ resolved = NoVal
  /\ resolvedAgain = NoVal

CreateMediaSource ==
  /\ resolved = NoVal
  /\ resolved' = createMediaSource(resolveUrl)
  /\ UNCHANGED << resolveUrl, resolvedAgain >>

CreateMediaSourceAgain ==
  /\ resolved # NoVal
  /\ resolvedAgain = NoVal
  /\ resolvedAgain' = createMediaSource(resolveUrl)
  /\ UNCHANGED << resolveUrl, resolved >>

runVars ==
  << pc, nFeeds, feedIdx, feedVars, localVars, aggVars, seenSet, seenPrev, histVars,
     merged, opVars >>

NextFactory ==
  /\ \/ CreateMediaSource
     \/ CreateMediaSourceAgain
  /\ UNCHANGED runVars

SpecFactory == InitFactory /\ [][NextFactory]_vars

C13_NoFeedNeverStarts ==
  nFeeds = 0 =>
    /\ pc \in {"start", "configError"}
    /\ feedIdx = 0
    /\ nFetched = 0
    /\ inFlight = <<>>
    /\ outcomes = <<>> /\ articles = <<>>

\* C13 witness: the run ended in the configuration error
C13_Witness == nFeeds = 0 /\ pc = "configError"

\* Items with title and link at positions before idx
Attempted ==
  Cardinality({k \in 1..(idx - 1) : HasLinkAndTitle(newsList[selected[k]])})

FetchPending == \E k \in 1..Len(inFlight) : inFlight[k] = "retrieveArticle"

\* C14: at most one suspending call (feed ingestion or article fetch) is in
\* flight at any moment; retrieveArticle is called for an item only when every
\* earlier item of the call with title and link has its result pushed; the seen
\* set and the aggregate's cover and style do not change while a fetch is
\* pending.
C14_OneCallInFlight ==
  [][ /\ Len(inFlight') <= 1
      /\ FetchPending => UNCHANGED << seenSet, cover, style >>
      /\ nFetched' = nFetched + 1 => (inFlight = <<>> /\ Len(results) = Attempted) ]_vars

\* C14 witness: the second fetch of a feed is pending, the first has its result
C14_Witness ==
  /\ pc = "fetching"
  /\ inFlight = <<"retrieveArticle">>
  /\ Len(results) = 1
  /\ idx = 2

InFeed == pc \in {"extracting", "fetching"}

\* Items of the call with title and link
Fetchable ==
  {k \in 1..Len(selected) : HasLinkAndTitle(newsList[selected[k]])}

\* C15: the controller goes ready -> ingesting -> deduped -> extracting (item
\* after item) -> merge -> ready or done, and nowhere else: the output of a feed
\* is merged only when every item given to the call was attempted, and the
\* extraction of a feed is left only through that merge, so the next feed is
\* ingested after it.
C15_ControllerTransitions ==
  [][ /\ pc = "ready" => pc' \in {"ready", "ingesting", "done"}
      /\ pc = "ingesting" => pc' = "selecting"
      /\ pc = "selecting" => pc' = "extracting"
      /\ pc = "extracting" => pc' \in {"extracting", "fetching", "ready"}
      /\ pc = "fetching" => pc' = "extracting"
      /\ merged' # merged =>
           /\ pc = "extracting" /\ pc' = "ready"
           /\ idx > Len(selected)
           /\ Len(fetched) = Cardinality(Fetchable)
      /\ (InFeed /\ ~InFeed') => Len(merged') = Len(merged) + 1 ]_vars

\* C16: retrieveArticle makes one attempt, and every transport failure, a
\* response with a non-success status and a failure of the request itself
\* included, ends it with a rejection: it never resolves with the body of such a
\* response and never stays unsettled.
C16_TransportFailureRejects ==
  [][ (pc = "fetching" /\ pc' # "fetching") =>
        /\ nFetched' = nFetched
        /\ lastFetch' \in {"resolved", "rejected"}
        /\ lastFetch' = "resolved" => httpStatus' = "200" ]_vars

\* How many times position p was given to retrieveArticle
TimesFetched(log, p) == Cardinality({k \in 1..Len(log) : log[k] = p})

Survivors == {selected[k] : k \in 1..Len(selected)}

\* C17: every item that survives dedup and selection and has title and link is
\* fetched exactly once; an item dropped by dedup, removed by the selection, or
\* without title or link is never fetched.
C17_FetchedExactlyOnce ==
  [][ /\ \A p \in 1..Len(newsList') :
            /\ TimesFetched(fetched', p) <= 1
            /\ TimesFetched(fetched', p) = 1 =>
                 /\ p \in Survivors'
                 /\ HasLinkAndTitle(newsList'[p])
                 /\ \E k \in 1..Len(Dedup(newsList', seenPrev')) :
                       Dedup(newsList', seenPrev')[k] = p
      /\ (InFeed /\ ~InFeed') =>
            \A k \in Fetchable : TimesFetched(fetched, selected[k]) = 1 ]_vars

\* C18: with the Le Monde source an item whose title starts with "En direct" is
\* fetched, and the trim of its page throws the live stream error before the
\* cover is taken or a container looked for: a failure result with that error
\* is pushed, no article is added, and the cover of the media source stays as
\* it was.
C18_LiveStreamSkipped ==
  [][ (/\ pc = "fetching"
       /\ msKind = "LeMonde"
       /\ StartsWithLive(News.title)
       /\ lastFetch' = "resolved") =>
        /\ results' = Append(results, FailureResult(News, LiveError))
        /\ epubContent' = epubContent
        /\ msCover' = msCover ]_vars

\* C18 witness: a live item with a picture was fetched by the Le Monde source,
\* which has no cover yet; its result is the live stream failure
C18_Witness ==
  /\ pc = "extracting"
  /\ msKind = "LeMonde"
  /\ lastFetch = "resolved"
  /\ idx > 1
  /\ StartsWithLive(newsList[selected[idx - 1]].title)
  /\ newsList[selected[idx - 1]].media.present
  /\ fetched # <<>> /\ fetched[Len(fetched)] = selected[idx - 1]
  /\ results # <<>> /\ results[Len(results)].error = LiveError
  /\ msCover = NoText

HasOutcome(src, g) == \E i \in 1..Len(src) : src[i].guid = g

\* C19: the guids of the items that pass the dedup are in the seen set when the
\* dedup is done, before the selection answers, and stay there whatever it
\* keeps; an item whose guid was seen in an earlier feed is dropped; so a guid
\* seen in an earlier feed that has no Outcome then never gets one.
C19_SeenBeforeSelection ==
  [][ /\ pc' = "selecting" =>
           /\ GuidsOf(newsList', selected') \subseteq seenSet'
           /\ \A i \in 1..Len(newsList') :
                 newsList'[i].guid \in seenPrev' => \A k \in 1..Len(selected') : selected'[k] # i
      /\ pc = "selecting" => seenSet' = seenSet
      /\ seenSet \subseteq seenSet'
      /\ \A g \in seenPrev : ~HasOutcome(outcomesSrc, g) => ~HasOutcome(outcomesSrc', g) ]_vars

\* C19 witness: the first feed was merged without a failed fetch; the second
\* feed has an item with guid g1, dropped by the dedup because g1 was seen in the
\* first feed, where the selection left it out: g1 has no Outcome
C19_Witness ==
  /\ pc = "selecting"
  /\ feedIdx = 2 /\ Len(merged) = 1
  /\ nFetched = nResults /\ unattempted = 0
  /\ "g1" \in seenPrev
  /\ ~HasOutcome(outcomesSrc, "g1")
  /\ \E i \in 1..Len(newsList) :
        /\ newsList[i].guid = "g1"
        /\ \A k \in 1..Len(selected) : selected[k] # i

FairSpec == Init /\ [][Next]_vars /\ WF_vars(Next)

\* C21: with at least one feed configured, if every feed ingestion and every
\* fetch completes, the run reaches done with every configured feed taken and
\* every item with title and link that passed dedup and selection attempted.
\* A request that fails never completes its fetch and is left aside.
C21_RunReachesDone ==
  (pc = "start" /\ nFeeds > 0) ~>
     \/ pc = "done" /\ feedIdx = nFeeds /\ unattempted = 0
     \/ lastFetch = "requestError"

\* The item carries a media url
Carries(news) == news.media.present /\ news.media.url # NoText

\* The results' items, in the order of their results, that were fetched in this
\* call, pass the test, and carry a media url
CoverCandidates(src, Test(_)) ==
  LET Ok(o) == Test(newsList[o.pos]) /\ Carries(newsList[o.pos])
  IN  SelectSeq(src, Ok)

NotLive(news) == ~StartsWithLive(news.title)

\* The trim of the media source gets as far as createBookCoverFromArticle
ReachesCover(news) == msKind = "Gamekult" \/ ~StartsWithLive(news.title)

\* C22 as claimed: the cover of the media source is the media url of the first
\* fetched item that is not live and carries one, and none without such an item.
C22_CoverIsFirstMediaUrl ==
  InFeed =>
    LET cand == CoverCandidates(resultsSrc, NotLive)
    IN  msCover = IF cand = <<>> THEN NoText ELSE newsList[cand[1].pos].media.url

\* C22 amended: the cover of the media source comes from the first fetched item
\* whose trim gets as far as the cover and that carries a media url, whatever the
\* container lookup then finds: the url itself, with Le Monde the url with its
\* feed image size replaced by the cover size.
C22_CoverFromFirstMediaUrl ==
  InFeed =>
    LET cand == CoverCandidates(resultsSrc, ReachesCover)
        url == newsList[cand[1].pos].media.url
    IN  msCover =
          IF cand = <<>> THEN NoText
          ELSE IF msKind = "LeMonde" /\ Contains(url, DEFAUT_FEED_IMAGE_SIZE)
          THEN ReplaceFirst(url, DEFAUT_FEED_IMAGE_SIZE, EXPECTED_COVER_IMAGE_SIZE)
          ELSE url

\* C22 witness: the only fetched item of the call has the "empty" failure, and
\* the cover of the media source is the media url of that item
C22_Witness ==
  /\ pc = "extracting"
  /\ Len(results) = 1
  /\ results[1].error = EmptyError
  /\ Carries(newsList[resultsSrc[1].pos])
  /\ msCover = newsList[resultsSrc[1].pos].media.url

\* The covers a media source can take from an item: its media url, as it is or
\* with the feed image size replaced
CoversFrom(news) ==
  IF Carries(news)
  THEN {news.media.url,
        ReplaceFirst(news.media.url, DEFAUT_FEED_IMAGE_SIZE, EXPECTED_COVER_IMAGE_SIZE)}
  ELSE {}

\* C23: every call of getEpubDataFromArticles works on a media source of its
\* own: the call starts without a cover whatever the earlier calls found, the
\* cover it has comes from an item fetched in this call, and it has none as
\* long as no item fetched in this call carries a media url.
C23_CoverOfThisCallOnly ==
  [][ /\ (pc = "selecting" /\ pc' = "extracting") => msCover' = NoText
      /\ InFeed' =>
           \/ msCover' = NoText
           \/ \E k \in 1..Len(resultsSrc') : msCover' \in CoversFrom(newsList'[resultsSrc'[k].pos]) ]_vars

\* C23 witness: the call before had a cover with a media source of the same
\* kind; this call is over, its items gave no cover, and it has none
C23_Witness ==
  /\ pc = "extracting"
  /\ idx > Len(selected)
  /\ Len(results) >= 1
  /\ merged # <<>>
  /\ merged[Len(merged)].kind = msKind
  /\ merged[Len(merged)].cover # NoText
  /\ msCover = NoText

====
